---------------------------- MODULE Spec2Model ----------------------------
(***************************************************************************)
(* Model of the Dantotsu comment mirror (src/dantotsu_sync.py and          *)
(* src/dantotsu_sync_new.py): the paginated fetchers, format_row, the      *)
(* tab-separated store file and the run modes "full" (backfill), "gaps"    *)
(* (gap fill), "daily" (incremental sync), "time-frame" and "user-focused".*)
(*                                                                         *)
(* Python values are pairs <<type, str(value)>>, so that str(), the csv    *)
(* writer's rendering of a cell and the csv reader's all-strings rows are  *)
(* modelled by what they do: None is written as the empty cell and read    *)
(* back as the empty string, an int is read back as a string of digits.    *)
(***************************************************************************)
EXTENDS Integers, Sequences, FiniteSets, TLC

(***************************************************************************)
(* Bounds of the model                                                     *)
(***************************************************************************)
\* comment ids are 1..MaxCid
MaxCid == 3
\* comments per page of the remote API
PageSize == 2
\* runs of the script in one behaviour
MaxRuns == 2
\* 429 answers the remote gives in one behaviour
MaxRateLimits == 1
\* failing answers (unexpected status, network error) in one behaviour
MaxFaults == 1
\* edits made upstream in one behaviour
MaxEdits == 1
\* the votes of a comment at the start are 0..MaxVotes
MaxVotes == 1
\* the calls of fetch_single_comment the interpreter lets nest inside the first
\* one before it raises RecursionError (sys.getrecursionlimit(), 1000 frames
\* when the script does not set it; scaled down here)
RecursionLimit == 1

(***************************************************************************)
(* Program constants                                                       *)
(***************************************************************************)
\* ThreadPoolExecutor(max_workers=3) of the paginated fetches
MediaWorkers == 3
\* ThreadPoolExecutor(max_workers=5) of the point fetches
GapWorkers == 5
\* batch_size of the new daily sync
BatchSize == 50
\* time.sleep(30) after a 429
Cooldown == 30

\* the media catalogue of the model (dantotsu_unique_media.json)
Medias == {101, 102}
\* the authors of the model
Users == {7, 8}
Cids == 1..MaxCid

(***************************************************************************)
(* Python values                                                           *)
(***************************************************************************)
PyInt(n) == <<"int", ToString(n)>>
PyStr(s) == <<"str", s>>
PyNone == <<"NoneType", "None">>

\* str(v)
str(v) == v[2]

\* the digits strings of the model and the int they denote
Nums == 0..(102 + MaxCid)
DigitStrings == { ToString(n) : n \in Nums }
NumOf == [ s \in DigitStrings |-> CHOOSE n \in Nums : ToString(n) = s ]
isdigit(s) == s \in DigitStrings
IntOf(s) == NumOf[s]

\* int(v) of an int or of a string of digits
int(v) == PyInt(IntOf(str(v)))

\* d.get(k, default)
Get(d, k, default) == IF k \in DOMAIN d THEN d[k] ELSE default

(***************************************************************************)
(* Texts: the bodies upstream may hold, and str.replace of tab and newline *)
(***************************************************************************)
Texts == {"A", "A\tB", "A\nB"}

\* s.replace('\t', ' ').replace('\n', ' ') on the texts of the model
ReplaceTabNl(s) ==
    CASE s = "A\tB" -> "A B"
      [] s = "A\nB" -> "A B"
      [] OTHER -> s

(***************************************************************************)
(* DantotsuManager.field_names and format_row                              *)
(***************************************************************************)
field_names ==
    << "comment_id", "user_id", "media_id", "parent_comment_id", "content",
       "timestamp", "deleted", "tag", "upvotes", "downvotes",
       "user_vote_type", "username", "profile_picture_url",
       "is_mod", "is_admin", "reply_count", "total_votes", "changes" >>

Fields == { field_names[i] : i \in 1..Len(field_names) }

format_row(c) ==
    [ comment_id          |-> Get(c, "comment_id", PyNone),
      user_id             |-> Get(c, "user_id", PyNone),
      media_id            |-> Get(c, "media_id", PyNone),
      parent_comment_id   |-> Get(c, "parent_comment_id", PyStr("NULL")),
      content             |-> PyStr(ReplaceTabNl(str(Get(c, "content", PyStr(""))))),
      timestamp           |-> Get(c, "timestamp", PyNone),
      deleted             |-> Get(c, "deleted", PyNone),
      tag                 |-> Get(c, "tag", PyNone),
      upvotes             |-> int(Get(c, "upvotes", PyInt(0))),
      downvotes           |-> int(Get(c, "downvotes", PyInt(0))),
      user_vote_type      |-> Get(c, "user_vote_type", PyNone),
      username            |-> Get(c, "username", PyStr("NULL")),
      profile_picture_url |-> Get(c, "profile_picture_url", PyStr("NULL")),
      is_mod              |-> Get(c, "is_mod", PyNone),
      is_admin            |-> Get(c, "is_admin", PyNone),
      reply_count         |-> int(Get(c, "reply_count", PyInt(0))),
      total_votes         |-> int(Get(c, "total_votes", PyInt(0))),
      changes             |-> PyStr("") ]

(***************************************************************************)
(* The csv file: a line is a function from field name to cell text         *)
(***************************************************************************)
\* csv.writer renders None as the empty cell and anything else by str()
CsvCell(v) == IF v = PyNone THEN "" ELSE str(v)

\* DictWriter.writerow(row): a cell per field name, restval '' for a missing key
writerow(row) == [ k \in Fields |-> CsvCell(Get(row, k, PyStr(""))) ]

\* DictWriter.writeheader()
HeaderLine == [ k \in Fields |-> k ]

\* writer.writerow({'media_id': m_id, 'content': 'EMPTY_MARKER'})
MarkerLine(m) == writerow([ media_id |-> PyInt(m), content |-> PyStr("EMPTY_MARKER") ])

\* csv.DictReader over the file's lines: the first line names the fields,
\* every other line is a row of strings
DictReader(lines) ==
    IF lines = <<>> THEN <<>>
    ELSE [ i \in 1..(Len(lines) - 1) |-> [ k \in Fields |-> PyStr(lines[i + 1][k]) ] ]


(***************************************************************************)
(* State                                                                   *)
(***************************************************************************)
VARIABLES
    upstream,      \* the remote: comment id -> raw comment, for the ids that exist
    db,            \* DB_PATH on disk: [exists, lines], the header line first
    buf,           \* lines written to the open file and not yet flushed
    mode,          \* SYNC_MODE of the running script, "idle" between two runs
    variant,       \* the script that runs: "sync" or "sync_new"
    tasks,         \* target -> the state of its fetch
    all_rows,      \* the daily sync's dict, as the sequence of its values
    new_found,     \* the daily sync's counters
    updated_found,
    window,        \* <<SYNC_START, SYNC_END>> of a time-frame run
    used,          \* what of the model's budgets the behaviour has used
    log,           \* history: one entry per run, the last one the current run's
    ended,         \* history: media whose fetch reached the end of its pages
    user_files,    \* the files user_{uid}.csv: uid -> lines, for those written
    other          \* a second process that runs the script: its buf, mode, variant,
                   \* tasks, all_rows, counters, window and log, while the
                   \* variables of these names are those of the first process

vars == << upstream, db, buf, mode, variant, tasks, all_rows, new_found,
           updated_found, window, used, log, ended, user_files, other >>

Variants == {"sync", "sync_new"}

(***************************************************************************)
(* The remote comments API                                                 *)
(***************************************************************************)
\* a comment as the API returns it; a comment without tag has no "tag" key
RawComment(c, m, text, tagged, up) ==
    [ comment_id |-> PyInt(c), user_id |-> PyInt(7), media_id |-> PyInt(m),
      content |-> PyStr(text), timestamp |-> PyStr(ToString(c)),
      deleted |-> PyInt(0), upvotes |-> PyInt(up), downvotes |-> PyInt(0),
      user_vote_type |-> PyInt(0), username |-> PyStr("u"),
      is_mod |-> PyInt(0), is_admin |-> PyInt(0), reply_count |-> PyInt(0),
      total_votes |-> PyInt(up) ]
    @@ (IF tagged THEN [ tag |-> PyStr("t") ] ELSE << >>)

CidOf(c) == IntOf(str(c["comment_id"]))
MediaOf(c) == IntOf(str(c["media_id"]))

\* the ids of the comments of media m
CommentsOf(up, m) == { c \in DOMAIN up : MediaOf(up[c]) = m }

\* the ids of S, the largest first (sort=newest)
RECURSIVE Newest(_)
Newest(S) ==
    IF S = {} THEN << >>
    ELSE LET x == CHOOSE y \in S : \A z \in S : z <= y
         IN  << x >> \o Newest(S \ {x})

\* GET /comments/{m}/{p}?sort=newest: the comments of page p, empty past the end
Page(up, m, p) ==
    LET ids == Newest(CommentsOf(up, m))
        lo  == (p - 1) * PageSize + 1
        hi  == IF p * PageSize < Len(ids) THEN p * PageSize ELSE Len(ids)
    IN  [ i \in 1..(hi - lo + 1) |-> up[ids[lo + i - 1]] ]

\* the concatenation of pages 1..n
RECURSIVE PagesUpTo(_, _, _)
PagesUpTo(up, m, n) ==
    IF n = 0 THEN << >> ELSE PagesUpTo(up, m, n - 1) \o Page(up, m, n)

\* the answers the remote may give to a request for page p of media m
PageAnswers(m, p) ==
    {"200"}
    \cup (IF Page(upstream, m, p) = << >> THEN {"404"} ELSE {})
    \cup (IF used.limits < MaxRateLimits THEN {"429"} ELSE {})
    \cup (IF used.faults < MaxFaults THEN {"500", "error"} ELSE {})

\* the answers the remote may give to GET /comments/{c}
SingleAnswers(c) ==
    (IF c \in DOMAIN upstream THEN {"200"} ELSE {"404"})
    \cup (IF used.limits < MaxRateLimits THEN {"429"} ELSE {})
    \cup (IF used.faults < MaxFaults THEN {"500", "error"} ELSE {})

\* the budgets after an answer
Spend(answer) ==
    [ used EXCEPT !.limits = @ + (IF answer = "429" THEN 1 ELSE 0),
                  !.faults = @ + (IF answer \in {"500", "error"} THEN 1 ELSE 0) ]

(***************************************************************************)
(* get_existing_data                                                       *)
(***************************************************************************)
\* the rows of the file, none when the file does not exist
ReadRows(file) == IF file.exists THEN DictReader(file.lines) ELSE << >>

captured_media(file) ==
    LET rows == ReadRows(file)
    IN  { IntOf(str(rows[i]["media_id"])) :
            i \in { j \in 1..Len(rows) :
                      /\ isdigit(str(rows[j]["media_id"]))
                      /\ str(rows[j]["content"]) # "EMPTY_MARKER" } }

captured_comments(file) ==
    LET rows == ReadRows(file)
    IN  { IntOf(str(rows[i]["comment_id"])) :
            i \in { j \in 1..Len(rows) : isdigit(str(rows[j]["comment_id"])) } }

(***************************************************************************)
(* Tasks and the pools                                                     *)
(***************************************************************************)
NewTask ==
    [ st |-> "queued", page |-> 1, comments |-> << >>, last |-> "none", slept |-> 0,
      depth |-> 0 ]

Submit(targets) == [ t \in targets |-> NewTask ]

NoTasks == Submit({})

\* the fetches of the run are made one after the other by the main thread
Sequential ==
    mode \in {"time-frame", "user-focused"} \/ (mode = "daily" /\ variant = "sync")

max_workers == IF mode = "gaps" THEN GapWorkers ELSE MediaWorkers

\* the batch of the new daily sync that target t is in: media_ids[i:i+batch_size]
BatchOf(t) ==
    IF mode = "daily" /\ variant = "sync_new"
    THEN Cardinality({ u \in DOMAIN tasks : u < t }) \div BatchSize
    ELSE 0

Running(t) == tasks[t].st \in {"request", "cooldown"}

\* a queued task starts when a worker is free (and its batch has been reached);
\* the main thread starts a fetch when it is done with the one before
CanStart(t) ==
    IF Sequential
    THEN \A u \in DOMAIN tasks \ {t} : tasks[u].st \in {"queued", "collected"}
    ELSE /\ Cardinality({ u \in DOMAIN tasks : Running(u) }) < max_workers
         /\ \A u \in DOMAIN tasks : BatchOf(u) < BatchOf(t) => tasks[u].st = "collected"

\* Ready, but a cooldown pauses the whole pool: no task goes on while some
\* task sleeps
Ready_GlobalPause(t) ==
    /\ \A u \in DOMAIN tasks : tasks[u].st # "cooldown"
    /\ \/ tasks[t].st = "request"
       \/ tasks[t].st = "queued" /\ CanStart(t)

Ready(t) ==
    \/ tasks[t].st = "request"
    \/ tasks[t].st = "queued" /\ CanStart(t)

AllCollected == \A t \in DOMAIN tasks : tasks[t].st = "collected"


(***************************************************************************)
(* The history of runs                                                     *)
(***************************************************************************)
\* the entry of a run that starts: what it is, its targets, the file it found
Entry(m, v, targets, outcome) ==
    [ mode |-> m, variant |-> v, targets |-> targets, outcome |-> outcome,
      before |-> db.lines, edits |-> used.edits, faults |-> used.faults,
      new |-> 0, updated |-> 0 ]

\* the run ends at once (an early return, an exception before the fetching)
Ends(m, v, targets, outcome) ==
    /\ log' = Append(log, Entry(m, v, targets, outcome))
    /\ mode' = "idle"
    /\ variant' = v
    /\ UNCHANGED << other, user_files, upstream, db, buf, tasks, all_rows, new_found,
                    updated_found, window, used, ended >>

\* the run goes on to fetch its targets
Begins(m, v, targets) ==
    /\ log' = Append(log, Entry(m, v, targets, "running"))
    /\ mode' = m
    /\ variant' = v
    /\ tasks' = Submit(targets)

\* the current run's entry, completed
Closed(outcome) ==
    [ log EXCEPT ![Len(log)] =
        [ @ EXCEPT !.outcome = outcome, !.new = new_found, !.updated = updated_found,
                   !.faults = used.faults - @ ] ]

\* the file's lines when the current (or last) run started
pre == IF log = << >> THEN << >> ELSE log[Len(log)].before

CanRun == mode = "idle" /\ Len(log) < MaxRuns

(***************************************************************************)
(* fetch_media_comments, one request of the loop per step                  *)
(***************************************************************************)
\* AfterPage, but a rate-limited request is taken as answered: the loop moves
\* on to the next page without the cooldown and without asking again
AfterPage_Skips429(task, answer, got) ==
    CASE answer = "429" ->
           [ task EXCEPT !.st = "request", !.last = answer, !.page = @ + 1 ]
      [] answer = "200" /\ got # << >> ->
           [ task EXCEPT !.st = "request", !.last = answer,
                         !.comments = @ \o got, !.page = @ + 1 ]
      [] OTHER ->
           [ task EXCEPT !.st = "done", !.last = answer ]

\* AfterPage, but the loop ends after the first batch it gathered
AfterPage_OnePage(task, answer, got) ==
    CASE answer = "429" ->
           [ task EXCEPT !.st = "cooldown", !.last = answer ]
      [] answer = "200" /\ got # << >> ->
           [ task EXCEPT !.st = "done", !.last = answer, !.comments = @ \o got ]
      [] OTHER ->
           [ task EXCEPT !.st = "done", !.last = answer ]

\* AfterPage, but an empty batch does not end the loop: the same page is
\* asked for again
AfterPage_NoBreakOnEmpty(task, answer, got) ==
    CASE answer = "429" ->
           [ task EXCEPT !.st = "cooldown", !.last = answer ]
      [] answer = "200" /\ got # << >> ->
           [ task EXCEPT !.st = "request", !.last = answer,
                         !.comments = @ \o got, !.page = @ + 1 ]
      [] answer = "200" ->
           [ task EXCEPT !.st = "request", !.last = answer ]
      [] OTHER ->
           [ task EXCEPT !.st = "done", !.last = answer ]

\* the task after the answer to its request for its page
AfterPage(task, answer, got) ==
    CASE answer = "429" ->
           [ task EXCEPT !.st = "cooldown", !.last = answer ]
      [] answer = "200" /\ got # << >> ->
           [ task EXCEPT !.st = "request", !.last = answer,
                         !.comments = @ \o got, !.page = @ + 1 ]
      [] OTHER ->
           [ task EXCEPT !.st = "done", !.last = answer ]

\* FetchPage, but the worker itself formats the batch it was given and writes
\* the rows to the open store file
FetchPage_WritesRows(t) ==
    /\ mode \in {"full", "daily", "time-frame"}
    /\ t \in DOMAIN tasks
    /\ Ready(t)
    /\ \E answer \in PageAnswers(t, tasks[t].page) :
         LET got == Page(upstream, t, tasks[t].page)
         IN  /\ tasks' = [ tasks EXCEPT ![t] = AfterPage(@, answer, got) ]
             /\ used' = Spend(answer)
             /\ buf' = IF answer = "200"
                        THEN buf \o [ i \in 1..Len(got) |-> writerow(format_row(got[i])) ]
                        ELSE buf
             /\ ended' = IF answer = "404" \/ (answer = "200" /\ got = << >>)
                         THEN ended \cup {t} ELSE ended
    /\ UNCHANGED << other, user_files, upstream, db, mode, variant, all_rows, new_found,
                    updated_found, window, log >>

FetchPage(t) ==
    /\ mode \in {"full", "daily", "time-frame"}
    /\ t \in DOMAIN tasks
    /\ Ready(t)
    /\ \E answer \in PageAnswers(t, tasks[t].page) :
         LET got == Page(upstream, t, tasks[t].page)
         IN  /\ tasks' = [ tasks EXCEPT ![t] = AfterPage(@, answer, got) ]
             /\ used' = Spend(answer)
             /\ ended' = IF answer = "404" \/ (answer = "200" /\ got = << >>)
                         THEN ended \cup {t} ELSE ended
    /\ UNCHANGED << other, user_files, upstream, db, buf, mode, variant, all_rows, new_found,
                    updated_found, window, log >>

\* time.sleep(30) returns and the loop asks for the same page again
Wake(t) ==
    /\ mode # "gaps"
    /\ t \in DOMAIN tasks
    /\ tasks[t].st = "cooldown"
    /\ tasks' = [ tasks EXCEPT ![t].st = "request", ![t].slept = @ + Cooldown ]
    /\ UNCHANGED << other, user_files, upstream, db, buf, mode, variant, all_rows, new_found,
                    updated_found, window, used, log, ended >>

(***************************************************************************)
(* fetch_single_comment                                                    *)
(***************************************************************************)
AfterSingle(task, answer, c) ==
    CASE answer = "429" ->
           [ task EXCEPT !.st = "cooldown", !.last = answer ]
      [] answer = "200" ->
           [ task EXCEPT !.st = "done", !.last = answer, !.comments = << c >> ]
      [] OTHER ->
           [ task EXCEPT !.st = "done", !.last = answer ]

FetchSingle(t) ==
    /\ mode = "gaps"
    /\ t \in DOMAIN tasks
    /\ Ready(t)
    /\ \E answer \in SingleAnswers(t) :
         /\ tasks' = [ tasks EXCEPT ![t] =
                         AfterSingle(@, answer,
                                     IF answer = "200" THEN upstream[t] ELSE << >>) ]
         /\ used' = Spend(answer)
    /\ UNCHANGED << other, user_files, upstream, db, buf, mode, variant, all_rows, new_found,
                    updated_found, window, log, ended >>

\* time.sleep(30) returns and fetch_single_comment calls itself: the nested
\* call makes the request again, unless the interpreter's stack is used up:
\* then RecursionError is raised, "except: pass" catches it and every call
\* on the stack returns None
Recurse(t) ==
    /\ mode = "gaps"
    /\ t \in DOMAIN tasks
    /\ tasks[t].st = "cooldown"
    /\ tasks' = [ tasks EXCEPT ![t] =
                    IF @.depth < RecursionLimit
                    THEN [ @ EXCEPT !.st = "request", !.slept = @ + Cooldown,
                                    !.depth = @ + 1 ]
                    ELSE [ @ EXCEPT !.st = "done", !.slept = @ + Cooldown ] ]
    /\ UNCHANGED << other, user_files, upstream, db, buf, mode, variant, all_rows, new_found,
                    updated_found, window, used, log, ended >>

(***************************************************************************)
(* "full": main() and process_media_list                                   *)
(***************************************************************************)
\* OpenAppend, but the file is opened with mode 'w' whether it exists or not
OpenAppend_Truncates(file) == [ exists |-> TRUE, lines |-> << >> ]

\* the file once opened with mode 'a' if it exists, else 'w'
OpenAppend(file) == [ exists |-> TRUE, lines |-> file.lines ]

\* [self.format_row(c) for c in res], written
FormattedLines(res) == [ i \in 1..Len(res) |-> writerow(format_row(res[i])) ]

\* what the loop writes for the result of target m_id
FullLines(m_id, res) ==
    IF res # << >> THEN FormattedLines(res) ELSE << MarkerLine(m_id) >>

\* targets = [x for x in all_json_ids if x not in captured_media]
FullTargets(all_json_ids, file) == all_json_ids \ captured_media(file)

StartFull(v, all_json_ids) ==
    /\ CanRun
    /\ LET targets == FullTargets(all_json_ids, db)
       IN  IF targets = {}
           THEN Ends("full", v, targets, "returned")
           ELSE /\ Begins("full", v, targets)
                /\ buf' = IF db.exists THEN << >> ELSE << HeaderLine >>
                /\ db' = OpenAppend(db)
                /\ UNCHANGED << other, user_files, upstream, all_rows, new_found, updated_found,
                                window, used, ended >>

\* one turn of "for future in as_completed(futures)"; the new script flushes
CollectFull(t) ==
    /\ mode = "full"
    /\ t \in DOMAIN tasks
    /\ tasks[t].st = "done"
    /\ LET out == FullLines(t, tasks[t].comments)
       IN  IF variant = "sync_new"
           THEN /\ db' = [ db EXCEPT !.lines = @ \o buf \o out ]
                /\ buf' = << >>
           ELSE /\ buf' = buf \o out
                /\ db' = db
    /\ tasks' = [ tasks EXCEPT ![t].st = "collected" ]
    /\ UNCHANGED << other, user_files, upstream, mode, variant, all_rows, new_found,
                    updated_found, window, used, log, ended >>

\* the with-blocks of an appending run end: the pool is shut down, the file closed
FinishAppend ==
    /\ mode \in {"full", "gaps", "time-frame"}
    /\ AllCollected
    /\ db' = [ db EXCEPT !.lines = @ \o buf ]
    /\ buf' = << >>
    /\ mode' = "idle"
    /\ tasks' = NoTasks
    /\ log' = Closed("complete")
    /\ UNCHANGED << other, user_files, upstream, variant, all_rows, new_found, updated_found,
                    window, used, ended >>

(***************************************************************************)
(* "gaps": run_comment_id_gap_fill                                         *)
(***************************************************************************)
Max(S) == CHOOSE x \in S : \A y \in S : y <= x

\* missing_ids, but the known ids are not taken out of the range
missing_ids_All(existing_comments) == 1..Max(existing_comments)

\* missing_ids = sorted(set(range(1, last_id + 1)) - existing_comments)
missing_ids(existing_comments) == (1..Max(existing_comments)) \ existing_comments

StartGaps(v) ==
    /\ CanRun
    /\ LET existing_comments == captured_comments(db)
       IN  IF existing_comments = {}
           THEN Ends("gaps", v, {}, "returned")
           ELSE IF missing_ids(existing_comments) = {}
           THEN Ends("gaps", v, {}, "returned")
           ELSE /\ Begins("gaps", v, missing_ids(existing_comments))
                /\ db' = OpenAppend(db)
                /\ buf' = << >>
                /\ UNCHANGED << other, user_files, upstream, all_rows, new_found, updated_found,
                                window, used, ended >>

\* one turn of "for future in as_completed(futures)": a row if the fetch found
\* the comment, nothing otherwise; the new script flushes after a row
CollectGaps(t) ==
    /\ mode = "gaps"
    /\ t \in DOMAIN tasks
    /\ tasks[t].st = "done"
    /\ LET out == FormattedLines(tasks[t].comments)
       IN  IF variant = "sync_new" /\ out # << >>
           THEN /\ db' = [ db EXCEPT !.lines = @ \o buf \o out ]
                /\ buf' = << >>
           ELSE /\ buf' = buf \o out
                /\ db' = db
    /\ tasks' = [ tasks EXCEPT ![t].st = "collected" ]
    /\ UNCHANGED << other, user_files, upstream, mode, variant, all_rows, new_found,
                    updated_found, window, used, log, ended >>

(***************************************************************************)
(* "daily": run_daily_sync                                                 *)
(***************************************************************************)
\* the key of a row in all_rows: int(row['comment_id'])
KeyOf(row) == IntOf(str(row["comment_id"]))

HasKey(rows, cid) == \E i \in 1..Len(rows) : KeyOf(rows[i]) = cid

Lookup(rows, cid) == rows[CHOOSE i \in 1..Len(rows) : KeyOf(rows[i]) = cid]

\* all_rows[cid] = row: a dict keeps the place of a key it already holds
DictPut(rows, row) ==
    IF HasKey(rows, KeyOf(row))
    THEN [ i \in 1..Len(rows) |-> IF KeyOf(rows[i]) = KeyOf(row) THEN row ELSE rows[i] ]
    ELSE Append(rows, row)

\* LoadAll, but the rows of the file are not taken into all_rows
LoadAll_Nothing(acc, rows) == acc

\* "for row in reader: all_rows[int(row['comment_id'])] = row"
RECURSIVE LoadAll(_, _)
LoadAll(acc, rows) ==
    IF rows = << >> THEN acc ELSE LoadAll(DictPut(acc, Head(rows)), Tail(rows))

\* int(row['comment_id']) raises ValueError on a row whose cell is no number
LoadRaises(file) ==
    LET rows == ReadRows(file)
    IN  \E i \in 1..Len(rows) : ~isdigit(str(rows[i]["comment_id"]))

\* ",".join(names)
RECURSIVE Join(_)
Join(names) ==
    IF names = << >> THEN ""
    ELSE IF Len(names) = 1 THEN names[1]
    ELSE names[1] \o "," \o Join(Tail(names))

\* str(old.get(k, '')) != str(new.get(k, ''))
Differs(old, new, k) == str(Get(old, k, PyStr(""))) # str(Get(new, k, PyStr("")))

\* [k for k in self.field_names[:-1] if str(old.get(k, '')) != str(row.get(k, ''))]
changes(old, row) ==
    SelectSeq(SubSeq(field_names, 1, Len(field_names) - 1),
              LAMBDA k : Differs(old, row, k))

\* the loop body of dantotsu_sync.py for one fetched comment;
\* acc is [rows, new, updated]
MergeSync(acc, c) ==
    LET row == format_row(c)
        cid == CidOf(c)
    IN  IF HasKey(acc.rows, cid)
        THEN LET old == Lookup(acc.rows, cid)
             IN  IF changes(old, row) # << >>
                 THEN [ acc EXCEPT
                          !.rows = DictPut(@, [ row EXCEPT !.changes =
                                                  PyStr(Join(changes(old, row))) ]),
                          !.updated = @ + 1 ]
                 ELSE acc
        ELSE [ acc EXCEPT !.rows = DictPut(@, [ row EXCEPT !.changes = PyStr("NEW") ]),
                          !.new = @ + 1 ]

\* the keys the new script compares by str() after the content
OtherKeys == Fields \ {"comment_id", "content", "changes"}

\* MergeSyncNew, but the body is left out of the comparison
MergeSyncNew_IgnoresBody(acc, c) ==
    LET row == format_row(c)
        cid == CidOf(c)
    IN  IF HasKey(acc.rows, cid)
        THEN LET old_row == Lookup(acc.rows, cid)
                 has_changes == \E key \in OtherKeys : Differs(old_row, row, key)
             IN  IF has_changes
                 THEN [ acc EXCEPT !.rows = DictPut(@, row), !.updated = @ + 1 ]
                 ELSE acc
        ELSE [ acc EXCEPT !.rows = DictPut(@, [ row EXCEPT !.changes = PyStr("NEW") ]),
                          !.new = @ + 1 ]

\* the loop body of dantotsu_sync_new.py for one fetched comment
MergeSyncNew(acc, c) ==
    LET row == format_row(c)
        cid == CidOf(c)
    IN  IF HasKey(acc.rows, cid)
        THEN LET old_row == Lookup(acc.rows, cid)
                 edited  == Get(old_row, "content", PyStr("")) # Get(row, "content", PyStr(""))
                 row1    == IF edited
                            THEN [ row EXCEPT !.changes = Get(old_row, "content", PyStr("")) ]
                            ELSE row
                 has_changes == edited \/ \E key \in OtherKeys : Differs(old_row, row, key)
             IN  IF has_changes
                 THEN [ acc EXCEPT !.rows = DictPut(@, row1), !.updated = @ + 1 ]
                 ELSE acc
        ELSE [ acc EXCEPT !.rows = DictPut(@, [ row EXCEPT !.changes = PyStr("NEW") ]),
                          !.new = @ + 1 ]

Merge(v, acc, c) == IF v = "sync_new" THEN MergeSyncNew(acc, c) ELSE MergeSync(acc, c)

\* "for c in comments: ..."
RECURSIVE MergeAll(_, _, _)
MergeAll(v, acc, comments) ==
    IF comments = << >> THEN acc
    ELSE MergeAll(v, Merge(v, acc, Head(comments)), Tail(comments))

\* open(DB_PATH, 'w') truncates the file; the header stays in the buffer
Truncated == [ exists |-> TRUE, lines |-> << >> ]

\* the run loads all_rows, truncates the file and goes on to fetch its targets
BeginsDaily(v, targets) ==
    IF LoadRaises(db)
    THEN Ends("daily", v, targets, "ValueError")
    ELSE /\ Begins("daily", v, targets)
         /\ all_rows' = LoadAll(<< >>, ReadRows(db))
         /\ db' = Truncated
         /\ buf' = << HeaderLine >>
         /\ new_found' = 0
         /\ updated_found' = 0
         /\ UNCHANGED << other, user_files, upstream, window, used, ended >>

\* dantotsu_sync.py: the targets are the media the Discord feed names
StartDailySync(active_ids) ==
    /\ CanRun
    /\ IF active_ids = {}
       THEN Ends("daily", "sync", active_ids, "returned")
       ELSE BeginsDaily("sync", active_ids)

\* dantotsu_sync_new.py: the targets are the media of the store
StartDailySyncNew ==
    /\ CanRun
    /\ BeginsDaily("sync_new", captured_media(db))

\* the comments of one target are merged into all_rows
\* CollectDaily, but the comments are merged into the rows as the run loaded
\* them, and the result replaces all_rows: what an earlier collection merged
\* is lost
CollectDaily_FromLoaded(t) ==
    /\ mode = "daily"
    /\ t \in DOMAIN tasks
    /\ tasks[t].st = "done"
    /\ LET loaded == LoadAll(<< >>, ReadRows([ exists |-> TRUE, lines |-> pre ]))
           acc == MergeAll(variant,
                           [ rows |-> loaded, new |-> new_found, updated |-> updated_found ],
                           tasks[t].comments)
       IN  /\ all_rows' = acc.rows
           /\ new_found' = acc.new
           /\ updated_found' = acc.updated
    /\ tasks' = [ tasks EXCEPT ![t].st = "collected" ]
    /\ UNCHANGED << other, user_files, upstream, db, buf, mode, variant, window, used, log,
                    ended >>

CollectDaily(t) ==
    /\ mode = "daily"
    /\ t \in DOMAIN tasks
    /\ tasks[t].st = "done"
    /\ LET acc == MergeAll(variant,
                           [ rows |-> all_rows, new |-> new_found, updated |-> updated_found ],
                           tasks[t].comments)
       IN  /\ all_rows' = acc.rows
           /\ new_found' = acc.new
           /\ updated_found' = acc.updated
    /\ tasks' = [ tasks EXCEPT ![t].st = "collected" ]
    /\ UNCHANGED << other, user_files, upstream, db, buf, mode, variant, window, used, log, ended >>

\* "for r in all_rows.values(): writer.writerow(r)", and the file is closed
FinishDaily ==
    /\ mode = "daily"
    /\ AllCollected
    /\ db' = [ db EXCEPT !.lines = @ \o buf \o
                 [ i \in 1..Len(all_rows) |-> writerow(all_rows[i]) ] ]
    /\ buf' = << >>
    /\ mode' = "idle"
    /\ tasks' = NoTasks
    /\ log' = Closed("complete")
    /\ all_rows' = << >>
    /\ new_found' = 0
    /\ updated_found' = 0
    /\ UNCHANGED << other, user_files, upstream, variant, window, used, ended >>

(***************************************************************************)
(* "time-frame": run_time_frame_sync (dantotsu_sync.py only)               *)
(***************************************************************************)
\* datetime.fromisoformat(c['timestamp']); the model's timestamps are numbers
TimeOf(c) == IntOf(str(c["timestamp"]))

InWindow(c, w) == w[1] <= TimeOf(c) /\ TimeOf(c) <= w[2]

StartTimeFrame(w) ==
    /\ CanRun
    /\ Begins("time-frame", "sync", captured_media(db))
    /\ window' = w
    /\ db' = OpenAppend(db)
    /\ buf' = IF db.lines = << >> THEN << HeaderLine >> ELSE << >>
    /\ UNCHANGED << other, user_files, upstream, all_rows, new_found, updated_found, used, ended >>

\* the rows of the target's comments whose timestamp is in the window
CollectTimeFrame(t) ==
    /\ mode = "time-frame"
    /\ t \in DOMAIN tasks
    /\ tasks[t].st = "done"
    /\ buf' = buf \o FormattedLines(SelectSeq(tasks[t].comments,
                                              LAMBDA c : InWindow(c, window)))
    /\ tasks' = [ tasks EXCEPT ![t].st = "collected" ]
    /\ UNCHANGED << other, user_files, upstream, db, mode, variant, all_rows, new_found,
                    updated_found, window, used, log, ended >>

(***************************************************************************)
(* "user-focused": run_user_focused_sync and fetch_user_comments           *)
(* (dantotsu_sync.py only)                                                 *)
(***************************************************************************)
UserOf(c) == IntOf(str(c["user_id"]))

\* the ids of the comments of author u
UserCommentsOf(up, u) == { c \in DOMAIN up : UserOf(up[c]) = u }

\* GET /comments/user/{u}/{p}?sort=newest
UserPage(up, u, p) ==
    LET ids == Newest(UserCommentsOf(up, u))
        lo  == (p - 1) * PageSize + 1
        hi  == IF p * PageSize < Len(ids) THEN p * PageSize ELSE Len(ids)
    IN  [ i \in 1..(hi - lo + 1) |-> up[ids[lo + i - 1]] ]

\* the answers the remote may give to a request for page p of author u
UserPageAnswers(u, p) ==
    {"200"}
    \cup (IF UserPage(upstream, u, p) = << >> THEN {"404"} ELSE {})
    \cup (IF used.limits < MaxRateLimits THEN {"429"} ELSE {})
    \cup (IF used.faults < MaxFaults THEN {"500", "error"} ELSE {})

\* SYNC_USER_IDS names the authors; the shared store file is not opened
StartUserFocused(user_ids) ==
    /\ CanRun
    /\ IF user_ids = {}
       THEN Ends("user-focused", "sync", user_ids, "returned")
       ELSE /\ Begins("user-focused", "sync", user_ids)
            /\ UNCHANGED << other, user_files, upstream, db, buf, all_rows, new_found,
                            updated_found, window, used, ended >>

\* one request of the loop of fetch_user_comments, which is the loop of
\* fetch_media_comments on another URL
FetchUserPage(t) ==
    /\ mode = "user-focused"
    /\ t \in DOMAIN tasks
    /\ Ready(t)
    /\ \E answer \in UserPageAnswers(t, tasks[t].page) :
         /\ tasks' = [ tasks EXCEPT ![t] =
                         AfterPage(@, answer, UserPage(upstream, t, tasks[t].page)) ]
         /\ used' = Spend(answer)
    /\ UNCHANGED << other, user_files, upstream, db, buf, mode, variant, all_rows, new_found,
                    updated_found, window, log, ended >>

\* CollectUser, but the rows are appended to the shared store file
CollectUser_Shared(t) ==
    /\ mode = "user-focused"
    /\ t \in DOMAIN tasks
    /\ tasks[t].st = "done"
    /\ db' = [ exists |-> TRUE, lines |-> db.lines \o FormattedLines(tasks[t].comments) ]
    /\ tasks' = [ tasks EXCEPT ![t].st = "collected" ]
    /\ UNCHANGED << other, user_files, upstream, buf, mode, variant, all_rows, new_found,
                    updated_found, window, used, log, ended >>

\* "if not comments: continue", else user_{uid}.csv is opened with mode 'w',
\* the header and the rows are written and the file is closed
CollectUser(t) ==
    /\ mode = "user-focused"
    /\ t \in DOMAIN tasks
    /\ tasks[t].st = "done"
    /\ user_files' =
         IF tasks[t].comments = << >> THEN user_files
         ELSE [ u \in DOMAIN user_files \cup {t} |->
                  IF u = t THEN << HeaderLine >> \o FormattedLines(tasks[t].comments)
                  ELSE user_files[u] ]
    /\ tasks' = [ tasks EXCEPT ![t].st = "collected" ]
    /\ UNCHANGED << other, upstream, db, buf, mode, variant, all_rows, new_found,
                    updated_found, window, used, log, ended >>

\* the loop over the authors is over
FinishUser ==
    /\ mode = "user-focused"
    /\ AllCollected
    /\ mode' = "idle"
    /\ tasks' = NoTasks
    /\ log' = Closed("complete")
    /\ UNCHANGED << other, user_files, upstream, db, buf, variant, all_rows, new_found,
                    updated_found, window, used, ended >>

(***************************************************************************)
(* The environment: the process is killed; a comment is edited upstream    *)
(***************************************************************************)
\* the process is terminated from outside: what was not flushed is lost
Kill ==
    /\ mode \notin {"idle", "killed"}
    /\ mode' = "killed"
    /\ buf' = << >>
    /\ tasks' = NoTasks
    /\ all_rows' = << >>
    /\ new_found' = 0
    /\ updated_found' = 0
    /\ log' = Closed("killed")
    /\ UNCHANGED << other, user_files, upstream, db, variant, window, used, ended >>

\* between two runs comment c gets one more upvote; the total the remote
\* supplies is the remote's own business and stays as it is
Upvote(c) ==
    /\ mode = "idle"
    /\ db.exists
    /\ used.edits < MaxEdits
    /\ c \in DOMAIN upstream
    /\ upstream' = [ upstream EXCEPT ![c] =
                       [ @ EXCEPT !["upvotes"] = PyInt(IntOf(str(@)) + 1) ] ]
    /\ used' = [ used EXCEPT !.edits = @ + 1 ]
    /\ UNCHANGED << other, user_files, db, buf, mode, variant, tasks, all_rows, new_found,
                    updated_found, window, log, ended >>

\* between two runs the author of comment c changes its body (an edit before
\* there is a store is another initial remote)
EditBody(c, text) ==
    /\ mode = "idle"
    /\ db.exists
    /\ used.edits < MaxEdits
    /\ c \in DOMAIN upstream
    /\ upstream[c]["content"] # PyStr(text)
    /\ upstream' = [ upstream EXCEPT ![c] = [ @ EXCEPT !["content"] = PyStr(text) ] ]
    /\ used' = [ used EXCEPT !.edits = @ + 1 ]
    /\ UNCHANGED << other, user_files, db, buf, mode, variant, tasks, all_rows, new_found,
                    updated_found, window, log, ended >>

(***************************************************************************)
(* Two processes run the script on the same store file                     *)
(***************************************************************************)
\* what a process that runs the script holds of its own
Local ==
    [ buf |-> buf, mode |-> mode, variant |-> variant, tasks |-> tasks,
      all_rows |-> all_rows, new_found |-> new_found,
      updated_found |-> updated_found, window |-> window, log |-> log ]

\* the scheduler of the machine lets the other process run: nothing in the
\* script makes a process wait for another one (no lock file, no flock on
\* DB_PATH), so the processes alternate at any point; the file and the remote
\* are the same for both
Switch ==
    /\ other # Local
    /\ other' = Local
    /\ buf' = other.buf
    /\ mode' = other.mode
    /\ variant' = other.variant
    /\ tasks' = other.tasks
    /\ all_rows' = other.all_rows
    /\ new_found' = other.new_found
    /\ updated_found' = other.updated_found
    /\ window' = other.window
    /\ log' = other.log
    /\ UNCHANGED << upstream, db, used, ended, user_files >>

(***************************************************************************)

(* Specifications                                                          *)
(***************************************************************************)
\* a process that has not run the script yet
NoProcess ==
    [ buf |-> << >>, mode |-> "idle", variant |-> "sync", tasks |-> NoTasks,
      all_rows |-> << >>, new_found |-> 0, updated_found |-> 0,
      window |-> << 0, 0 >>, log |-> << >> ]

\* the remote at the start: every id absent or a comment of some media;
\* the comment with id 1 may lack its tag
Worlds ==
    UNION { [ S -> Medias ] : S \in SUBSET Cids }

WorldOf(mediaOf, untagged) ==
    [ c \in DOMAIN mediaOf |-> RawComment(c, mediaOf[c], "A", c \notin untagged, 0) ]

\* everything but the remote and the file; faults is what the remote has
\* already spent of its failing answers
InitRest(faults) ==
    /\ buf = << >>
    /\ mode = "idle"
    /\ variant = "sync"
    /\ tasks = NoTasks
    /\ all_rows = << >>
    /\ new_found = 0
    /\ updated_found = 0
    /\ window = << 0, 0 >>
    /\ used = [ limits |-> 0, faults |-> faults, edits |-> 0 ]
    /\ log = << >>
    /\ ended = {}
    /\ user_files = << >>
    /\ other = NoProcess

InitFull ==
    /\ \E mediaOf \in Worlds : upstream = WorldOf(mediaOf, {})
    /\ db = [ exists |-> FALSE, lines |-> << >> ]
    /\ InitRest(0)

NextFull ==
    \/ \E v \in Variants, ids \in SUBSET Medias : StartFull(v, ids)
    \/ \E t \in Medias : FetchPage(t)
    \/ \E t \in Medias : Wake(t)
    \/ \E t \in Medias : CollectFull(t)
    \/ FinishAppend

SpecFull == InitFull /\ [][NextFull]_vars

\* the file a complete "full" run over the catalogue ids leaves behind
RECURSIVE Backfilled(_, _)
Backfilled(up, ids) ==
    IF ids = {} THEN << HeaderLine >>
    ELSE LET m == Max(ids)
         IN  Backfilled(up, ids \ {m})
               \o FullLines(m, PagesUpTo(up, m, Cardinality(CommentsOf(up, m))))

\* the incremental sync of both scripts, on the store a backfill left behind;
\* every comment exists, comment 1 under media 101, and the remote answers
\* 200, 404 or 429 only
InitDaily ==
    /\ \E mediaOf \in [ Cids -> Medias ], untagged \in SUBSET {1} :
         /\ mediaOf[1] = 101
         /\ upstream = WorldOf(mediaOf, untagged)
    /\ db = [ exists |-> TRUE, lines |-> Backfilled(upstream, Medias) ]
    /\ InitRest(MaxFaults)

NextDaily ==
    \/ \E active_ids \in SUBSET Medias : StartDailySync(active_ids)
    \/ StartDailySyncNew
    \/ \E t \in Medias : FetchPage(t)
    \/ \E t \in Medias : Wake(t)
    \/ \E t \in Medias : CollectDaily(t)
    \/ FinishDaily
    \/ Kill
    \/ \E c \in Cids, text \in Texts : EditBody(c, text)

SpecDaily == InitDaily /\ [][NextDaily]_vars

\* every mode of both scripts that writes the store file, from a store that
\* does not exist yet; the comments of the remote are those of media 101
Init ==
    /\ \E S \in SUBSET Cids : upstream = WorldOf([ c \in S |-> 101 ], {1})
    /\ db = [ exists |-> FALSE, lines |-> << >> ]
    /\ InitRest(0)

Windows == { w \in Cids \X Cids : w[1] <= w[2] }

Next ==
    \/ \E v \in Variants, ids \in SUBSET Medias : StartFull(v, ids)
    \/ \E v \in Variants : StartGaps(v)
    \/ \E active_ids \in SUBSET Medias : StartDailySync(active_ids)
    \/ StartDailySyncNew
    \/ \E w \in Windows : StartTimeFrame(w)
    \/ \E t \in Medias : FetchPage(t)
    \/ \E t \in Cids : FetchSingle(t)
    \/ \E t \in Medias : Wake(t)
    \/ \E t \in Cids : Recurse(t)
    \/ \E t \in Medias : CollectFull(t)
    \/ \E t \in Cids : CollectGaps(t)
    \/ \E t \in Medias : CollectDaily(t)
    \/ \E t \in Medias : CollectTimeFrame(t)
    \/ FinishAppend
    \/ FinishDaily

Spec == Init /\ [][Next]_vars

\* the raw comment with the votes the remote supplies: upvotes, downvotes and,
\* if has_total, total_votes, the key being absent otherwise
WithVotes(raw, up, down, has_total, total) ==
    LET voted == [ raw EXCEPT !["upvotes"] = PyInt(up), !["downvotes"] = PyInt(down),
                              !["total_votes"] = PyInt(total) ]
    IN  IF has_total THEN voted
        ELSE [ k \in DOMAIN voted \ {"total_votes"} |-> voted[k] ]

\* format_row on whatever votes the remote supplies, through a backfill and
\* the daily syncs after it: one comment of media 101, tagged, with upvotes,
\* downvotes and total_votes drawn freely; the remote answers 200, 404 or 429
InitVotes ==
    /\ \E up \in 0..MaxVotes, down \in 0..MaxVotes, total \in 0..MaxVotes,
          has_total \in BOOLEAN :
         upstream = [ c \in {1} |->
                        WithVotes(RawComment(1, 101, "A", TRUE, 0),
                                  up, down, has_total, total) ]
    /\ db = [ exists |-> FALSE, lines |-> << >> ]
    /\ InitRest(MaxFaults)

NextVotes ==
    \/ \E v \in Variants : StartFull(v, {101})
    \/ StartDailySync({101})
    \/ StartDailySyncNew
    \/ FetchPage(101)
    \/ Wake(101)
    \/ CollectFull(101)
    \/ CollectDaily(101)
    \/ FinishAppend
    \/ FinishDaily
    \/ Upvote(1)

SpecVotes == InitVotes /\ [][NextVotes]_vars

\* the gap fill alone, on a store that holds the records of some ids K while
\* the remote holds those of S; the remote may answer 429 once more often than
\* the interpreter lets fetch_single_comment nest
InitPoint ==
    /\ \E S \in SUBSET Cids, K \in SUBSET Cids :
         /\ upstream = WorldOf([ c \in S |-> 101 ], {})
         /\ db = [ exists |-> TRUE,
                   lines |-> Backfilled(WorldOf([ c \in K |-> 101 ], {}), {101}) ]
    /\ buf = << >>
    /\ mode = "idle"
    /\ variant = "sync"
    /\ tasks = NoTasks
    /\ all_rows = << >>
    /\ new_found = 0
    /\ updated_found = 0
    /\ window = << 0, 0 >>
    /\ used = [ limits |-> MaxRateLimits - (RecursionLimit + 1), faults |-> 0,
                edits |-> 0 ]
    /\ log = << >>
    /\ ended = {}
    /\ user_files = << >>
    /\ other = NoProcess

NextPoint ==
    \/ \E v \in Variants : StartGaps(v)
    \/ \E t \in Cids : FetchSingle(t)
    \/ \E t \in Cids : Recurse(t)
    \/ \E t \in Cids : CollectGaps(t)
    \/ FinishAppend

SpecPoint == InitPoint /\ [][NextPoint]_vars

\* the author-scoped sync, with or without a store that a backfill left; the
\* comments are those of media 101, each of one of the authors
InitUser ==
    /\ \E S \in SUBSET Cids, has_store \in BOOLEAN :
         \E userOf \in [ S -> Users ] :
            /\ upstream = [ c \in S |->
                              [ RawComment(c, 101, "A", TRUE, 0) EXCEPT
                                  !["user_id"] = PyInt(userOf[c]) ] ]
            /\ db = IF has_store
                    THEN [ exists |-> TRUE, lines |-> Backfilled(upstream, Medias) ]
                    ELSE [ exists |-> FALSE, lines |-> << >> ]
    /\ InitRest(0)

NextUser ==
    \/ \E user_ids \in SUBSET Users : StartUserFocused(user_ids)
    \/ \E t \in Users : FetchUserPage(t)
    \/ \E t \in Users : Wake(t)
    \/ \E t \in Users : CollectUser(t)
    \/ FinishUser

SpecUser == InitUser /\ [][NextUser]_vars

\* two processes run an appending mode of either script, once each and at
\* the same time, on the same store file: the file a backfill left of the
\* comments K that the remote held then, or no file; the comments of the
\* remote are those of media 101 and the remote answers 200 or 404 only
InitTwo ==
    /\ \E S \in SUBSET Cids, K \in SUBSET Cids, has_store \in BOOLEAN :
         /\ K \subseteq S
         /\ has_store \/ K = {}
         /\ upstream = WorldOf([ c \in S |-> 101 ], {})
         /\ db = IF has_store
                 THEN [ exists |-> TRUE,
                        lines |-> Backfilled(WorldOf([ c \in K |-> 101 ], {}), {101}) ]
                 ELSE [ exists |-> FALSE, lines |-> << >> ]
    /\ buf = << >>
    /\ mode = "idle"
    /\ variant = "sync"
    /\ tasks = NoTasks
    /\ all_rows = << >>
    /\ new_found = 0
    /\ updated_found = 0
    /\ window = << 0, 0 >>
    /\ used = [ limits |-> MaxRateLimits, faults |-> MaxFaults, edits |-> 0 ]
    /\ log = << >>
    /\ ended = {}
    /\ user_files = << >>
    /\ other = NoProcess

NextTwo ==
    \/ \E v \in Variants, ids \in SUBSET Medias : log = << >> /\ StartFull(v, ids)
    \/ \E v \in Variants : log = << >> /\ StartGaps(v)
    \/ \E t \in Medias : FetchPage(t)
    \/ \E t \in Cids : FetchSingle(t)
    \/ \E t \in Medias : CollectFull(t)
    \/ \E t \in Cids : CollectGaps(t)
    \/ FinishAppend
    \/ Switch

SpecTwo == InitTwo /\ [][NextTwo]_vars

\* a backfill and the daily syncs after it, over targets that both hold
\* comments: every id absent or a comment of some media, the comments 1 and 2
\* without tag; no store at the start; the remote answers 200, 404 or 429
InitOrder ==
    /\ \E mediaOf \in Worlds : upstream = WorldOf(mediaOf, {1, 2})
    /\ db = [ exists |-> FALSE, lines |-> << >> ]
    /\ InitRest(MaxFaults)

NextOrder ==
    \/ \E v \in Variants, ids \in SUBSET Medias : StartFull(v, ids)
    \/ \E active_ids \in SUBSET Medias : StartDailySync(active_ids)
    \/ StartDailySyncNew
    \/ \E t \in Medias : FetchPage(t)
    \/ \E t \in Medias : Wake(t)
    \/ \E t \in Medias : CollectFull(t)
    \/ \E t \in Medias : CollectDaily(t)
    \/ FinishAppend
    \/ FinishDaily

SpecOrder == InitOrder /\ [][NextOrder]_vars

\* one run of a mode that fetches with each of the three fetchers (backfill,
\* gap fill, author-scoped sync), on the file a backfill left of the comments
\* K that the remote held then, or on no file; the comments of the remote
\* are those of media 101 and of author 7; the remote answers 429 and fails
\* within its budgets
InitLive ==
    /\ \E S \in SUBSET Cids, K \in SUBSET Cids, has_store \in BOOLEAN :
         /\ K \subseteq S
         /\ has_store \/ K = {}
         /\ upstream = WorldOf([ c \in S |-> 101 ], {})
         /\ db = IF has_store
                 THEN [ exists |-> TRUE,
                        lines |-> Backfilled(WorldOf([ c \in K |-> 101 ], {}), {101}) ]
                 ELSE [ exists |-> FALSE, lines |-> << >> ]
    /\ InitRest(0)

\* the script is started
StartLive ==
    /\ log = << >>
    /\ \/ \E v \in Variants, ids \in SUBSET Medias : StartFull(v, ids)
       \/ \E v \in Variants : StartGaps(v)
       \/ \E user_ids \in SUBSET Users : StartUserFocused(user_ids)

\* a step of the threads of a run that was started
RunLive ==
    \/ \E t \in Medias : FetchPage(t)
    \/ \E t \in Users : FetchUserPage(t)
    \/ \E t \in Cids : FetchSingle(t)
    \/ \E t \in Medias \cup Users : Wake(t)
    \/ \E t \in Cids : Recurse(t)
    \/ \E t \in Medias : CollectFull(t)
    \/ \E t \in Cids : CollectGaps(t)
    \/ \E t \in Users : CollectUser(t)
    \/ FinishAppend
    \/ FinishUser

NextLive == StartLive \/ RunLive

\* the threads of a run keep running: a request is answered or raises within
\* its timeout, time.sleep returns, and the main thread takes the results
SpecLive == InitLive /\ [][NextLive]_vars /\ WF_vars(RunLive)

(***************************************************************************)
(* Properties                                                              *)
(***************************************************************************)
Range(seq) == { seq[i] : i \in 1..Len(seq) }

\* the positions of the lines of a file that are rows, the header left out
RowsAt(lines) == 2..Len(lines)

\* the lines the running script has written so far, flushed or not
Written == db.lines \o buf

\* the positions in lines of the rows of record cid
RowsOf(lines, cid) == { i \in RowsAt(lines) : lines[i]["comment_id"] = ToString(cid) }

\* the positions in lines of the empty-marker rows of target m
MarkersOf(lines, m) == { i \in RowsAt(lines) : lines[i] = MarkerLine(m) }

LastRun == log[Len(log)]

\* C8's remote: media 101 holds comments 1, 2 and 3, media 102 none
ScenarioRemote == WorldOf([ c \in 1..3 |-> 101 ], {})

\* a complete backfill of [101, 102] on that remote, from no store, without a
\* failing answer
ScenarioDone ==
    /\ upstream = ScenarioRemote
    /\ mode = "idle"
    /\ Len(log) = 1
    /\ LastRun.mode = "full"
    /\ LastRun.targets = {101, 102}
    /\ LastRun.faults = 0
    /\ LastRun.outcome = "complete"

\* the store holds the header, one row for each of 1, 2, 3 and one marker for 102
ScenarioRows(marked) ==
    /\ Len(db.lines) = 5
    /\ db.lines[1] = HeaderLine
    /\ Cardinality(MarkersOf(db.lines, 102)) = 1
    /\ \A c \in 1..3 :
         \E i \in RowsOf(db.lines, c) :
            db.lines[i] = writerow([ format_row(ScenarioRemote[c]) EXCEPT
                                       !.changes = PyStr(marked) ])

\* C8 as stated: after the backfill of the scenario the store holds exactly
\* the records 1, 2, 3, each marked "NEW", and one empty marker for 102
C8_BackfillMarksNew == ScenarioDone => ScenarioRows("NEW")

\* what the backfill of the scenario does write, in either completion order of
\* the two fetches: the records 1, 2, 3 with the empty change marker that
\* format_row gives them, and one empty marker for target 102
BackfillLeavesMarkerEmpty == ScenarioDone => ScenarioRows("")

\* C6, the state part: what a fetch has gathered is the concatenation of the
\* pages before its current page, however often it was rate limited; a fetch
\* that reached the end holds every comment of its media once, newest first
C6_Gathered ==
    mode \in {"full", "daily", "time-frame"} =>
      \A t \in DOMAIN tasks :
         /\ tasks[t].comments = PagesUpTo(upstream, t, tasks[t].page - 1)
         /\ (tasks[t].st \in {"done", "collected"} /\ tasks[t].last \in {"200", "404"})
              => [ i \in 1..Len(tasks[t].comments) |-> CidOf(tasks[t].comments[i]) ]
                   = Newest(CommentsOf(upstream, t))

\* C6, the step part: a 429 leaves the page number and the gathered records
\* as they are and puts the task to sleep; the task leaves the sleep only by
\* sleeping the cooldown through, to ask for the same page
C6_Step ==
    \A t \in DOMAIN tasks \cap DOMAIN tasks' :
       /\ (tasks'[t] # tasks[t] /\ tasks'[t].last = "429" /\ tasks[t].st # "cooldown")
            => /\ tasks'[t].st = "cooldown"
               /\ tasks'[t].page = tasks[t].page
               /\ tasks'[t].comments = tasks[t].comments
       /\ (tasks'[t] # tasks[t] /\ tasks[t].st = "cooldown")
            => /\ tasks'[t].st = "request"
               /\ tasks'[t].slept = tasks[t].slept + Cooldown
               /\ tasks'[t].page = tasks[t].page
               /\ tasks'[t].comments = tasks[t].comments

\* C6: a fetch whose page p answers 429 and then 200 returns the records a
\* fetch returns whose page p answers 200 at once: the page does not advance
\* on 429, no record is dropped or doubled, and the task sleeps the cooldown
\* between the 429 and the retry
C6_RateLimitResilience == [](C6_Gathered) /\ [][C6_Step]_vars

\* a fetch that was rate limited, slept, and then gathered all the comments of
\* a media that has some
C6_Witness ==
    \E t \in DOMAIN tasks :
       /\ mode = "full"
       /\ tasks[t].slept >= Cooldown
       /\ tasks[t].st = "done"
       /\ tasks[t].last \in {"200", "404"}
       /\ tasks[t].comments # << >>

\* C5: when the pool's fetches are all collected, a target whose fetch ended
\* on a network error is recorded by an empty marker, and every record of a
\* target whose fetch ran to the end of its pages is written
C5_Isolation ==
    (mode = "full" /\ AllCollected) =>
      \A t1, t2 \in DOMAIN tasks :
         (tasks[t1].last = "error" /\ tasks[t2].last \in {"200", "404"})
           => /\ MarkersOf(Written, t1) # {}
              /\ \A c \in CommentsOf(upstream, t2) : RowsOf(Written, c) # {}

\* C9: a backfill run never fetches a target for which the store it found
\* holds an empty-marker row
C9_MarkedTargetsSkipped ==
    mode = "full" => \A t \in DOMAIN tasks : MarkersOf(pre, t) = {}

\* C10: a target is in the scraped set of the store only if some fetch of it
\* reached the end of its pages
C10_ScrapedIsComplete == captured_media(db) \subseteq ended

\* C1: the store file never holds two rows with the same record id
C1_Dedup ==
    \A i, j \in RowsAt(db.lines) :
       (i # j /\ isdigit(db.lines[i]["comment_id"]))
         => db.lines[i]["comment_id"] # db.lines[j]["comment_id"]

\* C2: when a daily sync is killed, the store file still holds every line it
\* held when the run started
C2_RewriteCrashSafe ==
    (mode = "killed" /\ LastRun.mode = "daily") => Range(pre) \subseteq Range(db.lines)

\* the last two runs are complete daily syncs of the same script over the same
\* targets, with no edit upstream between them
TwoDailyRuns ==
    /\ mode = "idle"
    /\ Len(log) >= 2
    /\ LET first  == log[Len(log) - 1]
           second == log[Len(log)]
       IN  /\ first.mode = "daily" /\ second.mode = "daily"
           /\ first.outcome = "complete" /\ second.outcome = "complete"
           /\ first.variant = second.variant
           /\ first.targets = second.targets
           /\ first.edits = second.edits
           /\ first.faults = 0 /\ second.faults = 0

\* C3: the second of two daily syncs against an unchanged remote leaves the
\* store as the first left it and counts no record as new or updated
C3_Idempotent ==
    TwoDailyRuns =>
      /\ db.lines = LastRun.before
      /\ LastRun.new = 0
      /\ LastRun.updated = 0

\* C4: after a complete gap fill in which no request failed, the store holds a
\* row for every id from 1 to the largest id it knew when the run started (a
\* row of the record is the only trace an id can leave: the file has no row
\* that records an id as absent)
C4_GapFillComplete ==
    (mode = "idle" /\ log # << >> /\ LastRun.mode = "gaps"
       /\ LastRun.outcome = "complete" /\ LastRun.faults = 0)
      => \A i \in 1..Max(captured_comments([ exists |-> TRUE, lines |-> pre ])) :
            RowsOf(db.lines, i) # {}

\* the comments of the fetch of t whose stored body differs from the body fetched
Edited(t) ==
    { i \in 1..Len(tasks[t].comments) :
        LET c == tasks[t].comments[i]
        IN  /\ HasKey(all_rows, CidOf(c))
            /\ str(Lookup(all_rows, CidOf(c))["content"]) # str(format_row(c)["content"]) }

\* C7, for the step that merges the fetch of t: every record whose stored body
\* A differs from the fetched body B is replaced in all_rows by the fetched
\* record, counted as updated, and its change marker is A or a comma-joined
\* list of field names with "content" among them
C7_Step ==
    \A t \in DOMAIN tasks \cap DOMAIN tasks' :
       (mode = "daily" /\ tasks[t].st = "done" /\ tasks'[t].st = "collected") =>
         /\ updated_found' >= updated_found + Cardinality(Edited(t))
         /\ \A i \in Edited(t) :
              LET c   == tasks[t].comments[i]
                  old == Lookup(all_rows, CidOf(c))
                  now == Lookup(all_rows', CidOf(c))
                  ks  == changes(old, format_row(c))
              IN  /\ now["content"] = format_row(c)["content"]
                  /\ \/ str(now["changes"]) = str(old["content"])
                     \/ /\ "content" \in Range(ks)
                        /\ str(now["changes"]) = Join(ks)

\* C7: in the daily sync a refetched record whose body differs from the stored
\* one is classified as updated and its change marker reflects the change
C7_BodyChangeDetected == [][C7_Step]_vars

\* a daily sync has replaced a stored record whose body was "A" by the edited
\* one, and marked it by the old body or by a list naming "content"
C7_Witness ==
    /\ mode = "daily"
    /\ updated_found > 0
    /\ \E i \in 1..Len(all_rows) :
          /\ all_rows[i]["content"] = PyStr("A B")
          /\ str(all_rows[i]["changes"]) \in {"A", "content"}

\* C11, the state part: a fetch that has not started is at page 1 with nothing
\* gathered; a fetch at page p holds the batches of pages 1..p-1 in page
\* order; a fetch that ended on an empty batch or a 404 ended on the first
\* empty page
C11_State ==
    mode \in {"full", "daily", "time-frame"} =>
      \A t \in DOMAIN tasks :
         /\ tasks[t].page >= 1
         /\ tasks[t].st = "queued" => (tasks[t].page = 1 /\ tasks[t].comments = << >>)
         /\ tasks[t].comments = PagesUpTo(upstream, t, tasks[t].page - 1)
         /\ \A p \in 1..(tasks[t].page - 1) : Page(upstream, t, p) # << >>
         /\ (tasks[t].st \in {"done", "collected"} /\ tasks[t].last \in {"200", "404"})
              => Page(upstream, t, tasks[t].page) = << >>

\* C11, the step part, for the answer to a request of the fetch of t: the page
\* number goes up by one exactly when the answer was a non-empty batch, which
\* is appended; on an empty batch or a 404 the fetch stops with what it has
C11_Step ==
    \A t \in DOMAIN tasks \cap DOMAIN tasks' :
       (/\ mode \in {"full", "daily", "time-frame"}
        /\ tasks[t].st \in {"queued", "request"}
        /\ tasks'[t] # tasks[t]) =>
          LET got == Page(upstream, t, tasks[t].page)
              ok  == tasks'[t].last = "200" /\ got # << >>
          IN  /\ tasks'[t].page = (IF ok THEN tasks[t].page + 1 ELSE tasks[t].page)
              /\ tasks'[t].comments = (IF ok THEN tasks[t].comments \o got
                                             ELSE tasks[t].comments)
              /\ ok => tasks'[t].st = "request"
              /\ (tasks'[t].last \in {"200", "404"} /\ got = << >>)
                   => tasks'[t].st = "done"

\* C11: a fetch asks for page 1 first and for page p+1 only right after page p
\* gave a non-empty batch; it skips no page, asks for no page again that gave
\* a batch, stops at the first empty batch or 404 and returns the batches of
\* pages 1..k in page order
C11_PaginationOrder == [](C11_State) /\ [][C11_Step]_vars

\* a fetch has gone through two pages with a batch each and ended on the empty
\* third page
C11_Witness ==
    \E t \in DOMAIN tasks :
       /\ mode = "full"
       /\ tasks[t].st = "done"
       /\ tasks[t].last \in {"200", "404"}
       /\ tasks[t].page = 3
       /\ Len(tasks[t].comments) = 3

\* the rows the current daily sync loaded: the file as the run found it
StoredBefore == ReadRows([ exists |-> TRUE, lines |-> pre ])

\* the fetched comment c, written, has the cells of the stored row old in
\* every field but the change marker
SameAsStored(old, c) ==
    \A k \in Fields \ {"changes"} : writerow(old)[k] = writerow(format_row(c))[k]

\* the comments the current daily sync has merged so far
Merged ==
    UNION { Range(tasks[t].comments) : t \in { u \in DOMAIN tasks : tasks[u].st = "collected" } }

\* C12: in a daily sync, a merged comment that equals its stored row in every
\* compared field leaves the row in all_rows as it was loaded, change marker
\* included, to be written back as the line it was read from; only the other
\* merged comments are counted as new or updated
C12_UnchangedIsNoOp ==
    mode = "daily" =>
      /\ \A c \in Merged :
           (HasKey(StoredBefore, CidOf(c))
              /\ SameAsStored(Lookup(StoredBefore, CidOf(c)), c))
             => /\ Lookup(all_rows, CidOf(c)) = Lookup(StoredBefore, CidOf(c))
                /\ \E i \in RowsOf(pre, CidOf(c)) :
                      writerow(Lookup(all_rows, CidOf(c))) = pre[i]
      /\ updated_found <=
           Cardinality({ c \in Merged :
                           /\ HasKey(StoredBefore, CidOf(c))
                           /\ ~SameAsStored(Lookup(StoredBefore, CidOf(c)), c) })
      /\ new_found <= Cardinality({ c \in Merged : ~HasKey(StoredBefore, CidOf(c)) })

\* C13: in every record row of the store, total_votes = upvotes - downvotes
C13_TotalIsDerived ==
    \A i \in RowsAt(db.lines) :
       isdigit(db.lines[i]["comment_id"]) =>
         IntOf(db.lines[i]["total_votes"])
           = IntOf(db.lines[i]["upvotes"]) - IntOf(db.lines[i]["downvotes"])

\* the names of the compared fields in which the fetched comment c, written,
\* differs from the stored row old, in the order of field_names
ChangedNames(old, c) ==
    SelectSeq(SubSeq(field_names, 1, Len(field_names) - 1),
              LAMBDA k : writerow(old)[k] # writerow(format_row(c))[k])

\* C14: in a daily sync, a merged comment that differs from its stored row in
\* some compared field is counted as updated, and the change marker of its
\* row is not empty: it is the comma-joined list of the changed field names
\* or, when the body changed, the body stored before
C14_UpdatedMarker ==
    mode = "daily" =>
      /\ \A c \in Merged :
           (HasKey(StoredBefore, CidOf(c))
              /\ ~SameAsStored(Lookup(StoredBefore, CidOf(c)), c))
             => LET old    == Lookup(StoredBefore, CidOf(c))
                    marker == CsvCell(Lookup(all_rows, CidOf(c))["changes"])
                IN  /\ marker # ""
                    /\ \/ marker = Join(ChangedNames(old, c))
                       \/ /\ "content" \in Range(ChangedNames(old, c))
                          /\ marker = str(old["content"])
      /\ updated_found >=
           Cardinality({ c \in Merged :
                           /\ HasKey(StoredBefore, CidOf(c))
                           /\ ~SameAsStored(Lookup(StoredBefore, CidOf(c)), c) })

\* the record ids of the rows of a file
IdsIn(lines) ==
    { IntOf(lines[i]["comment_id"]) :
        i \in { j \in RowsAt(lines) : isdigit(lines[j]["comment_id"]) } }

\* C15: after a run that completed, whatever its mode, every record id the
\* store held when the run started is still in the store
C15_NeverDeleted ==
    (mode = "idle" /\ log # << >> /\ LastRun.outcome = "complete")
      => IdsIn(pre) \subseteq IdsIn(db.lines)

\* a daily sync has completed that fetched media 102 only and so was given
\* none of the records the store held, which are those of media 101
C15_Witness ==
    /\ mode = "idle"
    /\ log # << >>
    /\ LastRun.mode = "daily"
    /\ LastRun.outcome = "complete"
    /\ LastRun.targets = {102}
    /\ IdsIn(pre) # {}
    /\ IdsIn(db.lines) = IdsIn(pre)

\* C16, for the answer to a request of the fetch of t: when the request raises
\* a network error for the first time on its page, the fetch is not given up
\* but stays on the same page to ask for it again
C16_Step ==
    \A t \in DOMAIN tasks \cap DOMAIN tasks' :
       (/\ mode \in {"full", "daily", "time-frame"}
        /\ tasks[t].st \in {"queued", "request"}
        /\ tasks'[t] # tasks[t]
        /\ tasks[t].last # "error"
        /\ tasks'[t].last = "error")
         => /\ tasks'[t].st # "done"
            /\ tasks'[t].page = tasks[t].page
            /\ tasks'[t].comments = tasks[t].comments

\* C16: a page request that raises a connection or timeout error is retried;
\* the fetch is abandoned only after the retries of that page have failed
C16_RetryOnNetworkError == [][C16_Step]_vars

\* C17: a point fetch that has returned returned on an answer other than 429:
\* the record when the answer was 200, nothing when it was a 404, another
\* status or an error
C17_PointFetch ==
    mode = "gaps" =>
      \A t \in DOMAIN tasks :
         tasks[t].st \in {"done", "collected"} =>
           /\ tasks[t].last \in {"200", "404", "500", "error"}
           /\ tasks[t].last = "200" => tasks[t].comments = << upstream[t] >>
           /\ tasks[t].last # "200" => tasks[t].comments = << >>

IsPrefix(a, b) == Len(a) <= Len(b) /\ SubSeq(b, 1, Len(a)) = a

\* C18: during and after a backfill or a gap fill the store file is the file
\* the run found, followed by what the run appended: the header if there was
\* no file, rows of upstream records and empty markers
C18_AppendFrame ==
    (log # << >> /\ LastRun.mode \in {"full", "gaps"}) =>
      /\ IsPrefix(pre, db.lines)
      /\ \A i \in (Len(pre) + 1)..Len(db.lines) :
            \/ i = 1 /\ db.lines[i] = HeaderLine
            \/ \E c \in DOMAIN upstream : db.lines[i] = writerow(format_row(upstream[c]))
            \/ \E m \in Medias : db.lines[i] = MarkerLine(m)

\* a gap fill has completed on a store that held rows and has appended a row
C18_Witness ==
    /\ mode = "idle"
    /\ log # << >>
    /\ LastRun.mode = "gaps"
    /\ LastRun.outcome = "complete"
    /\ Len(pre) > 1
    /\ Len(db.lines) > Len(pre)

\* the ids a gap fill has to ask for on the file it found: the positive
\* integers below a known record id that are no known record id
Gaps(lines) ==
    { i \in Cids : i \notin IdsIn(lines) /\ \E k \in IdsIn(lines) : i < k }

\* C19, the state part: the point fetches of a gap fill are those of the gaps
\* of the file it found, one fetch per id and none for a known id; a gap fill
\* that finds no gap returns at once and leaves the file as it is
C19_State ==
    /\ mode = "gaps" =>
         /\ DOMAIN tasks = Gaps(pre)
         /\ DOMAIN tasks \cap IdsIn(pre) = {}
    /\ (mode = "idle" /\ log # << >> /\ LastRun.mode = "gaps") =>
         /\ LastRun.targets = Gaps(pre)
         /\ Gaps(pre) = {} => (LastRun.outcome = "returned" /\ db.lines = pre)

\* C19, the step part: a point fetch that has returned is not made again
C19_Step ==
    \A t \in DOMAIN tasks \cap DOMAIN tasks' :
       (mode = "gaps" /\ tasks[t].st \in {"done", "collected"}) =>
          tasks'[t] \in { tasks[t], [ tasks[t] EXCEPT !.st = "collected" ] }

\* C19: a gap fill point-fetches exactly the integers of [1, max known id]
\* that are no known id, each once; without such an integer it fetches
\* nothing and leaves the store unchanged
C19_GapTargets == [](C19_State) /\ [][C19_Step]_vars

\* a gap fill has asked for the ids missing below the largest known id and has
\* stored one of them
C19_Witness ==
    /\ mode = "idle"
    /\ log # << >>
    /\ LastRun.mode = "gaps"
    /\ LastRun.outcome = "complete"
    /\ LastRun.targets # {}
    /\ IdsIn(db.lines) # IdsIn(pre)

\* C20, the state part: during and after an author-scoped sync the shared
\* store file is the file the run found, and the file of an author whose
\* fetch gave comments holds the header and their rows
C20_State ==
    /\ (log # << >> /\ LastRun.mode = "user-focused") =>
         /\ db.lines = pre
         /\ buf = << >>
    /\ mode = "user-focused" =>
         \A t \in DOMAIN tasks :
            (tasks[t].st = "collected" /\ tasks[t].comments # << >>) =>
               /\ t \in DOMAIN user_files
               /\ user_files[t] = << HeaderLine >> \o FormattedLines(tasks[t].comments)

\* C20, the step part: no step of an author-scoped sync touches the shared
\* store file
C20_Step ==
    (mode = "user-focused" \/ mode' = "user-focused") => (db' = db /\ buf' = buf)

\* C20: a sync scoped by author writes the fetched records to the author's
\* own file only and leaves the shared store file unchanged, whatever the
\* authors named and whatever the remote answers
C20_AuthorScopedFrame == [](C20_State) /\ [][C20_Step]_vars

\* an author-scoped sync has completed and written an author's file next to a
\* shared store that holds rows
C20_Witness ==
    /\ mode = "idle"
    /\ log # << >>
    /\ LastRun.mode = "user-focused"
    /\ LastRun.outcome = "complete"
    /\ user_files # << >>
    /\ db.exists
    /\ Len(db.lines) > 1

\* the positions in lines of the empty-marker rows: a target, the body
\* EMPTY_MARKER, no record id
EmptyMarkers(lines) ==
    { i \in RowsAt(lines) :
        /\ lines[i]["content"] = "EMPTY_MARKER"
        /\ lines[i]["comment_id"] = ""
        /\ lines[i]["media_id"] # "" }

\* C21: a daily sync that found an empty-marker row in the store and had
\* targets to fetch loads the store and runs on to completion, and when it
\* has completed every line the store held, marker rows included, is in the
\* store again
C21_MarkerRowsKept ==
    (log # << >> /\ LastRun.mode = "daily" /\ LastRun.outcome # "returned"
       /\ EmptyMarkers(pre) # {})
      => /\ LastRun.outcome \in {"running", "complete"}
         /\ LastRun.outcome = "complete" => Range(pre) \subseteq Range(db.lines)

\* the run fetches its targets in a pool of worker threads
Pooled == mode \in {"full", "gaps"} \/ (mode = "daily" /\ variant = "sync_new")

\* the in-memory index with its counters, and the store file with its writer
Shared == << all_rows, new_found, updated_found, db, buf >>

\* C22, for a step inside a pooled run: a step of a worker, which starts a
\* fetch, makes a request or sleeps, leaves the index and the file alone;
\* the index or the file change only in a step of the main thread that
\* collects the result of one fetch that has returned
C22_Step ==
    (Pooled /\ mode' = mode) =>
      /\ \A t \in DOMAIN tasks :
            (tasks'[t] # tasks[t] /\ tasks[t].st # "done") => Shared' = Shared
      /\ Shared' # Shared =>
            \E t \in DOMAIN tasks :
               /\ tasks[t].st = "done"
               /\ tasks' = [ tasks EXCEPT ![t].st = "collected" ]

\* C22: in a pooled run the workers only fetch and return what they fetched;
\* the index and the open store file are read and written by the main thread
\* alone, after it has collected a result
C22_SingleMutator == [][C22_Step]_vars

\* in a pooled backfill the main thread has collected the fetch of one target
\* and written its rows while the worker of another target sleeps
C22_Witness ==
    /\ mode = "full"
    /\ \E t, u \in DOMAIN tasks :
          /\ tasks[t].st = "collected"
          /\ tasks[t].comments # << >>
          /\ tasks[u].st = "cooldown"
    /\ \E c \in DOMAIN upstream : RowsOf(Written, c) # {}

\* a run in mode m holds DB_PATH open for writing: each of these modes opens
\* the file before its first fetch and closes it after its last
HoldsOpen(m) == m \in {"full", "gaps", "daily", "time-frame"}

\* C23: of two processes that run the script on the same store file, at no
\* moment do both hold the file open for writing; and once both are done the
\* file holds no record twice
C23_ExclusiveWriter ==
    /\ ~(HoldsOpen(mode) /\ HoldsOpen(other.mode))
    /\ (mode = "idle" /\ other.mode = "idle") => C1_Dedup

\* C24, the state part: while the fetch of t sleeps its cooldown in a pooled
\* backfill, the fetch of any other target that is under way can make its
\* next request, and the main thread can collect any fetch that has returned
C24_State ==
    mode = "full" =>
      \A t, u \in DOMAIN tasks :
         (t # u /\ tasks[t].st = "cooldown") =>
            /\ tasks[u].st = "request" => ENABLED FetchPage(u)
            /\ tasks[u].st = "done" => ENABLED CollectFull(u)

\* C24, the step part: a step of another fetch, or the collection of its
\* result, neither ends nor restarts the sleep of t
C24_Step ==
    \A t \in DOMAIN tasks \cap DOMAIN tasks' :
       (mode = "full" /\ tasks[t].st = "cooldown"
          /\ \E u \in DOMAIN tasks \cap DOMAIN tasks' : u # t /\ tasks'[u] # tasks[u])
         => tasks'[t] = tasks[t]

\* C24: the cooldown after a 429 suspends the task that got it and no other:
\* the other tasks of the pool go on with their requests, return, and are
\* collected while that task sleeps
C24_CooldownPerTask == [](C24_State) /\ [][C24_Step]_vars

\* the fetch of one target sleeps its first cooldown while the fetch of
\* another target, which went through a page of comments, has been collected
\* and its rows written
C24_Witness ==
    /\ mode = "full"
    /\ \E t, u \in DOMAIN tasks :
          /\ tasks[t].st = "cooldown"
          /\ tasks[t].slept = 0
          /\ tasks[u].st = "collected"
          /\ tasks[u].page > 1
          /\ \A i \in 1..Len(tasks[u].comments) :
                RowsOf(Written, CidOf(tasks[u].comments[i])) # {}

Min(S) == CHOOSE x \in S : \A y \in S : x <= y

\* the number of places of seq that hold x
Count(seq, x) == Cardinality({ i \in 1..Len(seq) : seq[i] = x })

\* a and b hold the same elements the same number of times
SameBag(a, b) == \A x \in Range(a) \cup Range(b) : Count(a, x) = Count(b, x)

\* what a backfill writes for the results of the targets ts when it collects
\* them in the order of their ids
RECURSIVE FullInOrder(_)
FullInOrder(ts) ==
    IF ts = {} THEN << >>
    ELSE FullLines(Min(ts), tasks[Min(ts)].comments) \o FullInOrder(ts \ {Min(ts)})

\* the index and the counters of a daily sync that collects the results of the
\* targets ts in the order of their ids, from acc
RECURSIVE MergeInOrder(_, _)
MergeInOrder(acc, ts) ==
    IF ts = {} THEN acc
    ELSE MergeInOrder(MergeAll(variant, acc, tasks[Min(ts)].comments), ts \ {Min(ts)})

\* the lines a backfill has written after the file it found and the header
Appended ==
    SubSeq(Written, Len(pre) + (IF pre = << >> THEN 2 ELSE 1), Len(Written))

\* C25: when the results of all targets are collected, the rows a backfill
\* has written are, up to their order, those it writes when the results come
\* in in the order of the target ids, and the index and the counters of a
\* daily sync are those of a merge in that order, the index up to the order
\* of its rows: so they are the same whatever the order the fetches return in
C25_OrderIndependent ==
    /\ (mode = "full" /\ AllCollected) =>
          SameBag(Appended, FullInOrder(DOMAIN tasks))
    /\ (mode = "daily" /\ AllCollected) =>
          LET acc == MergeInOrder([ rows |-> LoadAll(<< >>, StoredBefore),
                                    new |-> 0, updated |-> 0 ], DOMAIN tasks)
          IN  /\ SameBag(all_rows, acc.rows)
              /\ new_found = acc.new
              /\ updated_found = acc.updated

\* a backfill of two targets that both hold comments has collected them in
\* the order opposite to that of their ids
C25_Witness ==
    /\ mode = "full"
    /\ AllCollected
    /\ DOMAIN tasks = {101, 102}
    /\ tasks[101].comments # << >>
    /\ tasks[102].comments # << >>
    /\ Appended = FullLines(102, tasks[102].comments) \o FullLines(101, tasks[101].comments)

\* a daily sync of two targets has collected both, counting a record of the
\* one as updated and a record of the other as new
C25_WitnessDaily ==
    /\ mode = "daily"
    /\ AllCollected
    /\ DOMAIN tasks = {101, 102}
    /\ \E i, j \in 1..Len(all_rows) :
          /\ str(all_rows[i]["changes"]) = "NEW"
          /\ str(all_rows[j]["changes"]) \notin {"", "NEW"}
          /\ all_rows[i]["media_id"] # all_rows[j]["media_id"]

\* every fetch of the run has returned
AllReturned == \A t \in DOMAIN tasks : tasks[t].st \in {"done", "collected"}

\* C26, the liveness part: whenever some fetch of a run has not returned, a
\* moment comes by which every fetch has (a fetch that has returned stays so
\* until the run is over)
C26_Returns == (~AllReturned) ~> AllReturned

\* C26, the step part, for the answer to a request of the fetch of t: on a
\* 429 the fetch sleeps; on a batch that is not empty a paginated fetch goes
\* on to the next page; on every other answer the fetch returns at once
C26_Step ==
    \A t \in DOMAIN tasks \cap DOMAIN tasks' :
       (tasks[t].st \in {"queued", "request"} /\ tasks'[t] # tasks[t]) =>
          \/ tasks'[t].last = "429" /\ tasks'[t].st = "cooldown"
          \/ /\ mode # "gaps"
             /\ tasks'[t].last = "200"
             /\ tasks'[t].st = "request"
             /\ tasks'[t].page = tasks[t].page + 1
             /\ Len(tasks'[t].comments) > Len(tasks[t].comments)
          \/ tasks'[t].last # "429" /\ tasks'[t].st = "done"

\* C26: when the remote answers 429 finitely often, every fetch returns; an
\* answer other than a non-empty batch or a 429 ends the fetch at once, so a
\* fetch that never returns is one that is answered 429 without end
C26_FetchTerminates == C26_Returns /\ [][C26_Step]_vars

\* a paginated fetch that was rate limited and slept has gathered a page and
\* then returned at once on an answer that was neither a batch nor a 429
C26_Witness ==
    \E t \in DOMAIN tasks :
       /\ tasks[t].st = "done"
       /\ tasks[t].slept >= Cooldown
       /\ tasks[t].page > 1
       /\ tasks[t].last \in {"404", "500", "error"}

=============================================================================
